---- MODULE Spec2Model ----
(***************************************************************************)
(* UserService (src/index.js): the account / commerce orchestration layer  *)
(* over a document store (UserDB), a session store, a credential vault     *)
(* (encrypt) and a payment provider (Stripe).                              *)
(*                                                                         *)
(* Spec      : every public method runs as one whole handler.              *)
(* SpecAsync : the handlers that race are cut at their awaits.             *)
(***************************************************************************)
EXTENDS Integers, Sequences, FiniteSets, TLC

VARIABLES
    users,              \* document store: email key -> <<>> (absent) or <<doc>>
    session,            \* session.data: sessionId -> email
    nextSessionId,      \* next token createNewSession hands out
    nextStripeAccount,  \* next sub-account id the provider hands out
    stripePrices,       \* price objects at the provider: id -> [name, amount]
    last,               \* the call that returned last: [op, args, res, calls]
    nCalls,             \* calls made so far
    tasks               \* SpecAsync: the calls suspended at an await

vars == <<users, session, nextSessionId, nextStripeAccount, stripePrices, last, nCalls, tasks>>

----------------------------------------------------------------------------
(* Bounds *)

MaxSessions == 2        \* tokens createNewSession may hand out
MaxPrices == 2          \* price objects the provider may create
MaxCalls == 4           \* calls in one run

----------------------------------------------------------------------------
(* Strings: a string is the sequence of its characters; "" and undefined
   are both the empty sequence (both are falsy). *)

EmailA      == <<"a", "@", "x">>
EmailAUpper == <<"A", "@", "x">>
EmailB      == <<"b", "@", "x">>
NotAnEmail  == <<"b", "x">>

EmailInputs == {<<>>, EmailA, EmailAUpper, EmailB}

PwShort == <<"s", "e", "c", "r", "t">>
PwGood  == <<"s", "e", "c", "r", "e", "t">>
PwOther == <<"h", "u", "n", "t", "e", "r", "2">>

PasswordInputs == {<<>>, PwShort, PwGood, PwOther}

UpperLetters == <<"A", "B", "X">>
LowerLetters == <<"a", "b", "x">>

LowerChar(c) ==
    IF \E i \in DOMAIN UpperLetters : UpperLetters[i] = c
    THEN LowerLetters[CHOOSE i \in DOMAIN UpperLetters : UpperLetters[i] = c]
    ELSE c

toLowerCase(s) == [i \in DOMAIN s |-> LowerChar(s[i])]

Falsy(s) == s = <<>>

\* the keys a document can be stored or looked up under
EmailKeys == {e \in EmailInputs : ~Falsy(e)}

----------------------------------------------------------------------------
(* returnObj.js: success(data) / error(reason) *)

Err(msg, arg) == [msg |-> msg, arg |-> arg]
NoError == Err("", <<>>)
NoData == <<>>

success(data) == [success |-> TRUE, data |-> data, error |-> NoError]
error(e) == [success |-> FALSE, data |-> NoData, error |-> e]

MissingParameters == Err("Missing parameter(s)", <<>>)
InternalError == Err("internalError", <<>>)
StoreFailure == Err("store failure", <<>>)
DuplicateKey == Err("duplicate key", <<>>)
NoMatch == Err("no matching document", <<>>)
\* error(x) where x is undefined
UndefinedReason == Err("undefined", <<>>)

\* how a collaborator call ends: a result, a failed result, an exception
Modes == {"ok", "err", "throw"}

Call(name, mode) == [call |-> name, mode |-> mode]

\* a call that answered, with the answer it gave
Answered(name, data) == [call |-> name, mode |-> "ok", data |-> data]

\* what a handler or a collaborator call yields: the world after it, its
\* result, and the collaborator calls made
World == [users |-> users, session |-> session, nextSessionId |-> nextSessionId,
          nextStripeAccount |-> nextStripeAccount, stripePrices |-> stripePrices]

Out(w, res, calls) == [w |-> w, res |-> res, calls |-> calls]

----------------------------------------------------------------------------
(* encrypt: hash / compare *)

hash(password) == <<"hash", password>>

compare(password, hashed) == hashed = hash(password)

----------------------------------------------------------------------------
(* UserDB: createUser / find / update *)

Has(doc, prop) == prop \in DOMAIN doc
Stored(w, email) == email \in EmailKeys /\ w.users[email] # <<>>
DocOf(w, email) == w.users[email][1]

NewDoc(fields) ==
    fields @@ [blockedUsers |-> <<>>, services |-> <<>>, paymentHistory |-> <<>>]

\* each yields [w, mode, resp]; resp is meaningful when mode # "throw"
createUser(w, fields) ==
    { [w |-> w, mode |-> "throw", resp |-> error(StoreFailure)],
      [w |-> w, mode |-> "err", resp |-> error(StoreFailure)],
      IF Stored(w, fields.email)
      THEN [w |-> w, mode |-> "err", resp |-> error(DuplicateKey)]
      ELSE [w |-> [w EXCEPT !.users[fields.email] = <<NewDoc(fields)>>],
            mode |-> "ok", resp |-> success(NoData)] }

\* projection: the empty set of names selects every field
Project(doc, projection) ==
    IF projection = {} THEN doc
    ELSE [p \in DOMAIN doc \cap projection |-> doc[p]]

find(w, email, projection) ==
    { [w |-> w, mode |-> "throw", resp |-> error(StoreFailure)],
      [w |-> w, mode |-> "err", resp |-> error(StoreFailure)],
      [w |-> w, mode |-> "ok",
       resp |-> success(IF Stored(w, email)
                        THEN <<Project(DocOf(w, email), projection)>>
                        ELSE <<>>)] }

\* update by the email of `fields`: the fields given replace the stored ones
update(w, fields) ==
    { [w |-> w, mode |-> "throw", resp |-> error(StoreFailure)],
      [w |-> w, mode |-> "err", resp |-> error(StoreFailure)],
      IF Stored(w, fields.email)
      THEN [w |-> [w EXCEPT !.users[fields.email] = <<fields @@ DocOf(w, fields.email)>>],
            mode |-> "ok", resp |-> success(NoData)]
      ELSE [w |-> w, mode |-> "err", resp |-> error(NoMatch)] }

----------------------------------------------------------------------------
(* Session store *)

createNewSession(w, email) ==
    [w |-> [w EXCEPT !.session = (w.nextSessionId :> email) @@ w.session,
                     !.nextSessionId = w.nextSessionId + 1],
     sessionId |-> w.nextSessionId]

----------------------------------------------------------------------------
(* filterSensitiveUserData *)

sensitiveProps == {"password"}

filterSensitiveUserData(user) ==
    [prop \in DOMAIN user \ sensitiveProps |-> user[prop]]

\* JSON.stringify of a plain object: the text of its own keys and values
JSONstringify(obj) == <<"json", obj>>
JSONkeys(text) == DOMAIN text[2]

----------------------------------------------------------------------------
(* signup *)

MinPasswordLength == 6

\* line 30, were the email stored as typed
lowerCasedEmailOf_asTyped(email) == email

\* line 30
lowerCasedEmailOf(email) == toLowerCase(email)

signup(w, email, password) ==
    IF Falsy(email) \/ Falsy(password) THEN {Out(w, error(MissingParameters), <<>>)}
    ELSE IF Len(password) < MinPasswordLength
    THEN {Out(w, error(Err("Password must be at least 6 characters long", <<>>)), <<>>)}
    ELSE LET encryptedPassword == hash(password)
             lowerCasedEmail == lowerCasedEmailOf(email)
         IN { LET calls == <<Call("createUser", c.mode)>>
              IN IF c.mode = "throw" THEN Out(c.w, error(InternalError), calls)
                 ELSE IF ~c.resp.success THEN Out(c.w, error(c.resp.error), calls)
                 ELSE Out(c.w, success(NoData), calls)
              : c \in createUser(w, [email |-> lowerCasedEmail,
                                     password |-> encryptedPassword]) }

----------------------------------------------------------------------------
(* login *)

loginByUserData(w, email, password) ==
    { LET calls == <<Call("find", f.mode)>>
      IN IF f.mode = "throw" THEN Out(w, error(InternalError), calls)
         ELSE IF ~f.resp.success THEN Out(w, error(f.resp.error), calls)
         ELSE IF f.resp.data = <<>>
         THEN Out(w, error(Err("Could not find user: ", email)), calls)
         ELSE LET user == f.resp.data[1]
                  calls2 == Append(calls, Call("compare", "ok"))
              IN IF ~compare(password, user.password)
                 THEN Out(w, error(Err("Password is incorrect", <<>>)), calls2)
                 ELSE LET s == createNewSession(w, email)
                          userData == filterSensitiveUserData(user)
                      IN Out(s.w,
                             success([sessionId |-> s.sessionId,
                                      userData |-> JSONstringify(userData),
                                      method |-> "byUserData"]),
                             Append(calls2, Call("createNewSession", "ok")))
      : f \in find(w, email, {}) }

\* lines 78-79, were a token login to issue a token of its own
loginBySessionId_renews(w, sessionId) ==
    LET calls == <<Call("session.data", "ok")>>
    IN IF sessionId \notin DOMAIN w.session
       THEN {Out(w, error(Err("Invalid sessionId", <<>>)), calls)}
       ELSE LET email == w.session[sessionId]
                s == createNewSession(w, email)
            IN { LET calls2 == Append(calls, Call("find", f.mode))
                 IN IF f.mode = "throw" THEN Out(w, error(InternalError), calls2)
                    ELSE IF ~f.resp.success THEN Out(w, error(f.resp.error), calls2)
                    ELSE IF f.resp.data = <<>>
                    THEN Out(w, error(Err("Could not find user ", email)), calls2)
                    ELSE LET userData == filterSensitiveUserData(f.resp.data[1])
                         IN Out(s.w, success([userData |-> JSONstringify(userData),
                                              method |-> "bySessionId"]), calls2)
                 : f \in find(w, email, {}) }

loginBySessionId(w, sessionId) ==
    LET calls == <<Call("session.data", "ok")>>
    IN IF sessionId \notin DOMAIN w.session
       THEN {Out(w, error(Err("Invalid sessionId", <<>>)), calls)}
       ELSE LET email == w.session[sessionId]
            IN { LET calls2 == Append(calls, Call("find", f.mode))
                 IN IF f.mode = "throw" THEN Out(w, error(InternalError), calls2)
                    ELSE IF ~f.resp.success THEN Out(w, error(f.resp.error), calls2)
                    ELSE IF f.resp.data = <<>>
                    THEN Out(w, error(Err("Could not find user ", email)), calls2)
                    ELSE LET userData == filterSensitiveUserData(f.resp.data[1])
                         IN Out(w, success([userData |-> JSONstringify(userData),
                                            method |-> "bySessionId"]), calls2)
                 : f \in find(w, email, {}) }

\* line 46, were the two proofs of identity both required
loginMissing_either(email, password, sessionId) ==
    (Falsy(email) \/ Falsy(password)) \/ sessionId = 0

\* line 46; sessionId 0 stands for a missing (falsy) sessionId
loginMissing(email, password, sessionId) ==
    (Falsy(email) \/ Falsy(password)) /\ sessionId = 0

login(w, email, password, sessionId) ==
    IF loginMissing(email, password, sessionId)
    THEN {Out(w, error(MissingParameters), <<>>)}
    ELSE IF ~Falsy(email) /\ ~Falsy(password) THEN loginByUserData(w, email, password)
    ELSE loginBySessionId(w, sessionId)

----------------------------------------------------------------------------
(* signout *)

\* line 141, were the entry kept
signout_keepsEntry(w, sessionId) ==
    IF sessionId = 0 THEN {Out(w, error(MissingParameters), <<>>)}
    ELSE {Out(w, success(NoData), <<Call("session.delete", "ok")>>)}

signout(w, sessionId) ==
    IF sessionId = 0 THEN {Out(w, error(MissingParameters), <<>>)}
    ELSE {Out([w EXCEPT !.session = [t \in DOMAIN w.session \ {sessionId} |-> w.session[t]]],
              success(NoData), <<Call("session.delete", "ok")>>)}

----------------------------------------------------------------------------
(* resetPassword *)

\* lines 156-157, were the old password not checked
oldPasswordVerifies_unchecked(oldPassword, user) == TRUE

\* lines 156-157
oldPasswordVerifies(oldPassword, user) == compare(oldPassword, user.password)

resetPassword(w, email, oldPassword, newPassword) ==
    IF Falsy(email) \/ Falsy(oldPassword) \/ Falsy(newPassword)
    THEN {Out(w, error(MissingParameters), <<>>)}
    ELSE UNION {
      LET calls == <<Call("find", f.mode)>>
      IN IF f.mode = "throw" THEN {Out(w, error(InternalError), calls)}
         ELSE IF ~f.resp.success THEN {Out(w, error(f.resp.error), calls)}
         ELSE IF f.resp.data = <<>>
         THEN {Out(w, error(Err("Cannot find user: ", email)), calls)}
         ELSE LET user == f.resp.data[1]
                  calls2 == Append(calls, Call("compare", "ok"))
              IN IF user.email # email THEN {Out(w, error(Err("Database error", <<>>)), calls)}
                 ELSE IF ~oldPasswordVerifies(oldPassword, user)
                 THEN {Out(w, error(Err("Password is incorrect", <<>>)), calls2)}
                 ELSE LET hashedNewPassword == hash(newPassword)
                      IN { LET calls3 == Append(calls2, Call("update", u.mode))
                           IN IF u.mode = "throw" THEN Out(u.w, error(InternalError), calls3)
                              ELSE IF ~u.resp.success THEN Out(u.w, error(u.resp.error), calls3)
                              ELSE Out(u.w, success(<<"done">>), calls3)
                           : u \in update(w, [email |-> email, password |-> hashedNewPassword]) }
      : f \in find(w, email, {"email", "password"}) }

----------------------------------------------------------------------------
(* UserDB: updateArrayValue / findManyUsers *)

\* the element a delete of `value` removes: a service is matched by its
\* price id, any other element by equality
Matches(propName, x, value) ==
    IF propName = "services" THEN x.stripePriceId = value ELSE x = value

\* type is "insert", "delete" or "undefined" (no type given: the store may
\* take the mutation for a delete or refuse it)
updateArrayValue(w, email, propName, value, type) ==
    LET faults == { [w |-> w, mode |-> "throw", resp |-> error(StoreFailure)],
                    [w |-> w, mode |-> "err", resp |-> error(StoreFailure)] }
        noMatch == [w |-> w, mode |-> "err", resp |-> error(NoMatch)]
        array == DocOf(w, email)[propName]
        inserted == [w |-> [w EXCEPT !.users[email] =
                               <<[DocOf(w, email) EXCEPT ![propName] = Append(array, value)]>>],
                     mode |-> "ok", resp |-> success(NoData)]
        kept == SelectSeq(array, LAMBDA x : ~Matches(propName, x, value))
        deleted == IF kept # array
                   THEN [w |-> [w EXCEPT !.users[email] =
                                  <<[DocOf(w, email) EXCEPT ![propName] = kept]>>],
                         mode |-> "ok", resp |-> success(NoData)]
                   ELSE noMatch
        unsupported == [w |-> w, mode |-> "err",
                        resp |-> error(Err("unsupported operation", <<>>))]
    IN faults \cup
       ( IF ~Stored(w, email) THEN {noMatch}
         ELSE IF type = "insert" THEN {inserted}
         ELSE IF type = "delete" THEN {deleted}
         ELSE {deleted, unsupported} )

\* the documents one of whose searched fields equals the query
findManyUsers(w, cases) ==
    LET hit(doc) == \E prop \in DOMAIN cases : Has(doc, prop) /\ doc[prop] = cases[prop]
        keys == {e \in EmailKeys : Stored(w, e) /\ hit(DocOf(w, e))}
        docs == [e \in keys |-> DocOf(w, e)]
    IN { [w |-> w, mode |-> "throw", resp |-> error(StoreFailure)],
         [w |-> w, mode |-> "err", resp |-> error(StoreFailure)],
         [w |-> w, mode |-> "ok", resp |-> success(docs)] }

----------------------------------------------------------------------------
(* StripeService: createAccount / getAccount / getAccountLink / createPrice.
   An account id of 0 is a missing (undefined) id. *)

StripeFailure == Err("stripe failure", <<>>)

createAccount(w) ==
    { [w |-> w, mode |-> "throw", resp |-> error(StripeFailure)],
      [w |-> w, mode |-> "err", resp |-> error(StripeFailure)],
      [w |-> [w EXCEPT !.nextStripeAccount = w.nextStripeAccount + 1],
       mode |-> "ok", resp |-> success([id |-> w.nextStripeAccount])] }

\* the provider alone decides whether a sub-account can charge
getAccount(w, accountId) ==
    { [w |-> w, mode |-> "throw", resp |-> error(StripeFailure)],
      [w |-> w, mode |-> "err", resp |-> error(StripeFailure)] }
    \cup { [w |-> w, mode |-> "ok", resp |-> success([charges_enabled |-> ce])]
           : ce \in BOOLEAN }

getAccountLink(w, accountId) ==
    { [w |-> w, mode |-> "throw", resp |-> error(StripeFailure)],
      [w |-> w, mode |-> "err", resp |-> error(StripeFailure)],
      [w |-> w, mode |-> "ok", resp |-> success([url |-> <<"onboarding", accountId>>])] }

createPrice(w, name, amount) ==
    { [w |-> w, mode |-> "throw", resp |-> error(StripeFailure)],
      [w |-> w, mode |-> "err", resp |-> error(StripeFailure)],
      [w |-> [w EXCEPT !.stripePrices = Append(w.stripePrices, [name |-> name, amount |-> amount])],
       mode |-> "ok", resp |-> success([id |-> Len(w.stripePrices) + 1])] }

----------------------------------------------------------------------------
(* updateUserLocation *)

updateUserLocation(w, email, location) ==
    IF Falsy(email) \/ Falsy(location) THEN {Out(w, error(MissingParameters), <<>>)}
    ELSE { LET calls == <<Call("update", u.mode)>>
           IN IF u.mode = "throw" THEN Out(u.w, error(InternalError), calls)
              ELSE IF ~u.resp.success THEN Out(u.w, error(u.resp.error), calls)
              ELSE Out(u.w, success(NoData), calls)
           : u \in update(w, [email |-> email, location |-> location]) }

----------------------------------------------------------------------------
(* updateUserInsensitiveData.  An update object is <<>> (undefined) or
   <<u>>, u a function from property names to values. *)

insensitiveProps ==
    {"firstName", "lastName", "profileBinary", "location", "isBarber", "phoneNumber",
     "favoriteBarber"}

\* isBarber is a boolean, every other property a string
Truthy(prop, value) == IF prop = "isBarber" THEN value = TRUE ELSE value # <<>>

TruthyIn(obj, prop) == Has(obj, prop) /\ Truthy(prop, obj[prop])

\* lines 100-103, were every property of the update copied
userUpdateOf_everyProp(email, upd) == [email |-> email] @@ upd

\* lines 100-103
userUpdateOf(email, upd) ==
    [email |-> email] @@
    [prop \in {q \in insensitiveProps : TruthyIn(upd, q)} |-> upd[prop]]

\* line 110, were a sub-account never requested
needsStripeAccount_never(upd, foundUser) == FALSE

\* line 110, were isBarber not asked for
needsStripeAccount_anyUpdate(upd, foundUser) == ~Has(foundUser, "stripeAccountId")

\* line 110: a sub-account is requested
needsStripeAccount(upd, foundUser) ==
    TruthyIn(upd, "isBarber") /\ ~Has(foundUser, "stripeAccountId")

\* lines 116-118: the update is persisted and answered
persistUserUpdate(w, userUpdate, calls) ==
    { LET calls2 == Append(calls, Call("update", u.mode))
      IN IF u.mode = "throw" THEN Out(u.w, error(InternalError), calls2)
         ELSE IF ~u.resp.success THEN Out(u.w, error(UndefinedReason), calls2)
         ELSE Out(u.w, success(userUpdate), calls2)
      : u \in update(w, userUpdate) }

\* lines 112-114: the id of a sub-account that was created joins the update
withStripeAccount(userUpdate, stripeResponse) ==
    IF stripeResponse.success
    THEN [stripeAccountId |-> stripeResponse.data.id] @@ userUpdate
    ELSE userUpdate

\* lines 110-115: the sub-account is created when needed
linkStripeAccount(w, upd, foundUser, userUpdate, calls) ==
    IF ~needsStripeAccount(upd, foundUser) THEN persistUserUpdate(w, userUpdate, calls)
    ELSE UNION {
      LET calls2 == Append(calls, Call("createAccount", s.mode))
      IN IF s.mode = "throw" THEN {Out(s.w, error(InternalError), calls2)}
         ELSE persistUserUpdate(s.w, withStripeAccount(userUpdate, s.resp), calls2)
      : s \in createAccount(w) }

updateUserInsensitiveData(w, email, upd) ==
    IF Falsy(email) \/ upd = <<>> THEN {Out(w, error(MissingParameters), <<>>)}
    ELSE LET userUpdate == userUpdateOf(email, upd[1])
         IN UNION {
           LET calls == <<Call("find", f.mode)>>
           IN IF f.mode = "throw" THEN {Out(w, error(InternalError), calls)}
              ELSE IF ~f.resp.success THEN {Out(w, error(f.resp.error), calls)}
              ELSE IF f.resp.data = <<>> THEN {Out(w, error(InternalError), calls)}
              ELSE linkStripeAccount(w, upd[1], f.resp.data[1], userUpdate, calls)
           : f \in find(w, email, {"email", "stripeAccountId"}) }

----------------------------------------------------------------------------
(* getSearchedUsers *)

getSearchedUsers(w, query) ==
    IF Falsy(query) THEN {Out(w, error(MissingParameters), <<>>)}
    ELSE { LET calls == <<Call("findManyUsers", f.mode)>>
           IN IF f.mode = "throw" THEN Out(w, error(InternalError), calls)
              ELSE Out(w, f.resp, calls)
           : f \in findManyUsers(w, [email |-> query, firstName |-> query,
                                     lastName |-> query]) }

----------------------------------------------------------------------------
(* getPaymentHistory / addToPaymentHistory *)

getPaymentHistory(w, email) ==
    IF Falsy(email) THEN {Out(w, error(MissingParameters), <<>>)}
    ELSE { LET calls == <<Call("find", f.mode)>>
           IN IF f.mode = "throw" THEN Out(w, error(InternalError), calls)
              ELSE IF ~f.resp.success THEN Out(w, error(f.resp.error), calls)
              ELSE IF f.resp.data = <<>> THEN Out(w, error(Err("Cannot find user: ", email)), calls)
              ELSE IF f.resp.data[1].email # email
              THEN Out(w, error(Err("Database error", <<>>)), calls)
              ELSE Out(w, success(f.resp.data[1].paymentHistory), calls)
           : f \in find(w, email, {"email", "paymentHistory"}) }

\* date and random are the clock's and Math.random's answers
addToPaymentHistory(w, barberEmail, userEmail, listOfServices, costOfServices, date, random) ==
    IF Falsy(barberEmail) \/ Falsy(userEmail) \/ Falsy(listOfServices) \/ costOfServices = 0
    THEN {Out(w, error(MissingParameters), <<>>)}
    ELSE LET id == <<"payment_history:", barberEmail, "x", userEmail, "x", date, "x", random>>
             paymentData == [id |-> id, date |-> date, amount |-> costOfServices,
                             services |-> listOfServices]
         IN { LET calls == <<Call("updateArrayValue", a.mode)>>
              IN IF a.mode = "throw" THEN Out(a.w, error(InternalError), calls)
                 ELSE Out(a.w, a.resp, calls)
              : a \in updateArrayValue(w, userEmail, "paymentHistory", paymentData, "insert") }

----------------------------------------------------------------------------
(* getBlockedUsers / blockUser / unblockUser *)

getBlockedUsers(w, email) ==
    IF Falsy(email) THEN {Out(w, error(MissingParameters), <<>>)}
    ELSE { LET calls == <<Call("find", f.mode)>>
           IN IF f.mode = "throw" THEN Out(w, error(InternalError), calls)
              ELSE IF ~f.resp.success THEN Out(w, error(f.resp.error), calls)
              ELSE IF f.resp.data = <<>> THEN Out(w, error(Err("Cannot find user: ", email)), calls)
              ELSE IF f.resp.data[1].email # email
              THEN Out(w, error(Err("Database error", <<>>)), calls)
              ELSE Out(w, success(f.resp.data[1].blockedUsers), calls)
           : f \in find(w, email, {"email", "blockedUsers"}) }

blockUser(w, email, blockedEmail) ==
    IF Falsy(email) \/ Falsy(blockedEmail) THEN {Out(w, error(MissingParameters), <<>>)}
    ELSE { LET calls == <<Call("updateArrayValue", a.mode)>>
           IN IF a.mode = "throw" THEN Out(a.w, error(InternalError), calls)
              ELSE Out(a.w, a.resp, calls)
           : a \in updateArrayValue(w, email, "blockedUsers", blockedEmail, "insert") }

unblockUser(w, email, unblockedEmail) ==
    IF Falsy(email) \/ Falsy(unblockedEmail) THEN {Out(w, error(MissingParameters), <<>>)}
    ELSE { LET calls == <<Call("updateArrayValue", a.mode)>>
           IN IF a.mode = "throw" THEN Out(a.w, error(InternalError), calls)
              ELSE Out(a.w, a.resp, calls)
           : a \in updateArrayValue(w, email, "blockedUsers", unblockedEmail, "delete") }

----------------------------------------------------------------------------
(* setFavoriteBarber *)

\* validator.js: something before and after one "@"
validateEmail(s) ==
    \E i \in DOMAIN s : s[i] = "@" /\ 1 < i /\ i < Len(s)

setFavoriteBarber(w, email, favoriteBarber) ==
    IF Falsy(email) \/ Falsy(favoriteBarber) THEN {Out(w, error(MissingParameters), <<>>)}
    ELSE IF ~validateEmail(favoriteBarber)
    THEN {Out(w, error(Err("Favorite barber must be a valid email", <<>>)), <<>>)}
    ELSE updateUserInsensitiveData(w, email, <<[favoriteBarber |-> favoriteBarber]>>)

----------------------------------------------------------------------------
(* createService / updateService / deleteService.  Service data is <<>>
   (undefined) or <<d>>, d = [name, cost, time]; a price id of 0 is a
   missing one. *)

CentsPerUnit == 100

\* parseInt(cost * 100), cost a whole number of currency units
priceAmount(cost) == cost * CentsPerUnit

stripeAccountIdOf(user) == IF Has(user, "stripeAccountId") THEN user.stripeAccountId ELSE 0

\* line 268
isStripeVerified(user) == Has(user, "stripeVerified") /\ user.stripeVerified = TRUE

\* line 270, were the provider's answer not looked at
chargeCapable_always(account) == TRUE

\* line 270
chargeCapable(account) == account.charges_enabled

\* line 279, were the id made up by the core
priceIdOf_invented(stripeResponse) == 1

\* line 279: the id of the price is the one the provider answered
priceIdOf(stripeResponse) == stripeResponse.data.id

\* lines 278-287, were the price retired when the insert fails
publishService_retiresOrphan(w, d, email, calls) ==
    UNION {
      LET calls2 == Append(calls, Call("createPrice", p.mode))
      IN IF p.mode # "ok" THEN {Out(p.w, error(InternalError), calls2)}
         ELSE LET id == p.resp.data.id
              IN { LET calls3 == Append(calls2, Call("updateArrayValue", a.mode))
                   IN IF a.mode = "ok" THEN Out(a.w, success([stripePriceId |-> id]), calls3)
                      ELSE Out([a.w EXCEPT !.stripePrices = w.stripePrices],
                               error(InternalError), Append(calls3, Call("retirePrice", "ok")))
                   : a \in updateArrayValue(p.w, email, "services",
                                            [stripePriceId |-> id] @@ d, "insert") }
      : p \in createPrice(w, d.name, priceAmount(d.cost)) }

\* lines 278-287: the price is created, the service inserted, the id answered
publishService(w, d, email, calls) ==
    UNION {
      LET calls2 == Append(calls, Call("createPrice", p.mode))
      IN IF p.mode # "ok" THEN {Out(p.w, error(InternalError), calls2)}
         ELSE LET id == priceIdOf(p.resp)
              IN { LET calls3 == Append(calls2, Call("updateArrayValue", a.mode))
                   IN IF a.mode = "throw" THEN Out(a.w, error(InternalError), calls3)
                      ELSE Out(a.w, success([stripePriceId |-> id]), calls3)
                   : a \in updateArrayValue(p.w, email, "services",
                                            [stripePriceId |-> id] @@ d, "insert") }
      : p \in createPrice(w, d.name, priceAmount(d.cost)) }

\* lines 268-276: the sub-account's status is asked for an unverified user
verifyThenPublish(w, user, d, email, calls) ==
    IF isStripeVerified(user) THEN publishService(w, d, email, calls)
    ELSE UNION {
      LET calls2 == Append(calls, IF g.mode = "ok" THEN Answered("getAccount", g.resp.data)
                                  ELSE Call("getAccount", g.mode))
      IN IF g.mode # "ok" THEN {Out(w, error(InternalError), calls2)}
         ELSE IF ~chargeCapable(g.resp.data)
         THEN { LET calls3 == Append(calls2, Call("getAccountLink", l.mode))
                IN IF l.mode # "ok" THEN Out(w, error(InternalError), calls3)
                   ELSE Out(w, error(Err("url", l.resp.data.url)), calls3)
                : l \in getAccountLink(w, stripeAccountIdOf(user)) }
         ELSE UNION {
                LET calls3 == Append(calls2, Call("update", u.mode))
                IN IF u.mode = "throw" THEN {Out(u.w, error(InternalError), calls3)}
                   ELSE publishService(u.w, d, email, calls3)
                : u \in update(w, [email |-> email, stripeVerified |-> TRUE]) }
      : g \in getAccount(w, stripeAccountIdOf(user)) }

createService(w, serviceData, email) ==
    IF serviceData = <<>> THEN {Out(w, error(InternalError), <<>>)}
    ELSE LET d == serviceData[1]
         IN IF Falsy(email) \/ Falsy(d.name) \/ d.cost = 0 \/ d.time = 0
            THEN {Out(w, error(MissingParameters), <<>>)}
            ELSE UNION {
              LET calls == <<Call("find", f.mode)>>
              IN IF f.mode = "throw" THEN {Out(w, error(InternalError), calls)}
                 ELSE IF ~f.resp.success THEN {Out(w, error(f.resp.error), calls)}
                 ELSE IF f.resp.data = <<>>
                 THEN {Out(w, error(Err("Cannot find user: ", email)), calls)}
                 ELSE verifyThenPublish(w, f.resp.data[1], d, email, calls)
              : f \in find(w, email, {}) }

deleteService(w, email, priceId) ==
    IF Falsy(email) \/ priceId = 0 THEN {Out(w, error(MissingParameters), <<>>)}
    ELSE { LET calls == <<Call("updateArrayValue", a.mode)>>
           IN IF a.mode = "throw" THEN Out(a.w, error(InternalError), calls)
              ELSE Out(a.w, a.resp, calls)
           : a \in updateArrayValue(w, email, "services", priceId, "undefined") }

\* line 295: (!email, !priceId || !update) is (!priceId || !update)
updateServiceMissing(email, priceId, newData) == priceId = 0 \/ newData = <<>>

\* line 297, were the delete's answer not looked at
deleteFailed_never(deleteServiceResponse) == FALSE

\* line 297
deleteFailed(deleteServiceResponse) == ~deleteServiceResponse.success

updateService(w, email, priceId, newData) ==
    IF updateServiceMissing(email, priceId, newData)
    THEN {Out(w, error(MissingParameters), <<>>)}
    ELSE UNION {
      IF deleteFailed(del.res) THEN {Out(del.w, error(del.res.error), del.calls)}
      ELSE { Out(c.w, c.res, del.calls \o c.calls) : c \in createService(del.w, newData, email) }
      : del \in deleteService(w, email, priceId) }

----------------------------------------------------------------------------
(* The state machine *)

NoCall == [op |-> "none", args |-> <<>>, res |-> success(NoData), calls |-> <<>>]

Init ==
    /\ users = [e \in EmailKeys |-> <<>>]
    /\ session = <<>>
    /\ nextSessionId = 1
    /\ nextStripeAccount = 1
    /\ stripePrices = <<>>
    /\ last = NoCall
    /\ nCalls = 0
    /\ tasks = <<>>

WithinBounds(w) ==
    /\ w.nextSessionId <= MaxSessions + 1
    /\ Len(w.stripePrices) <= MaxPrices

\* a whole handler runs and returns
Returns(op, args, outs) ==
    /\ nCalls < MaxCalls
    /\ nCalls' = nCalls + 1
    /\ UNCHANGED tasks
    /\ \E o \in outs :
        /\ WithinBounds(o.w)
        /\ users' = o.w.users
        /\ session' = o.w.session
        /\ nextSessionId' = o.w.nextSessionId
        /\ nextStripeAccount' = o.w.nextStripeAccount
        /\ stripePrices' = o.w.stripePrices
        /\ last' = [op |-> op, args |-> args, res |-> o.res, calls |-> o.calls]

(* The arguments the calls are made with *)

Tokens == 1 .. MaxSessions
PriceIds == 1 .. MaxPrices

NYC == <<"N", "Y", "C">>
CutName == <<"C", "u", "t">>
TrimName == <<"T", "r", "i", "m">>

Cut == <<[name |-> CutName, cost |-> 20, time |-> 30]>>
FreeCut == <<[name |-> CutName, cost |-> 0, time |-> 30]>>
Trim == <<[name |-> TrimName, cost |-> 15, time |-> 20]>>

BecomeBarber == <<[isBarber |-> TRUE]>>
MoveToNYC == <<[location |-> NYC, isBarber |-> FALSE]>>
Overreach == <<[password |-> hash(PwOther), stripeAccountId |-> 9, stripeVerified |-> TRUE,
                email |-> EmailB, firstName |-> <<>>]>>

SignupInputs ==
    { <<<<>>, PwGood>>, <<EmailA, <<>>>>, <<EmailA, PwShort>>, <<EmailA, PwGood>>,
      <<EmailAUpper, PwGood>>, <<EmailB, PwOther>> }

LoginInputs ==
    { <<<<>>, <<>>, 0>>, <<EmailA, <<>>, 0>>, <<EmailA, PwGood, 0>>, <<EmailA, PwOther, 0>>,
      <<EmailAUpper, PwGood, 0>>, <<EmailB, PwOther, 0>>,
      <<EmailA, PwGood, 1>>, <<EmailA, <<>>, 1>>, <<<<>>, PwGood, 1>> }
    \cup { <<<<>>, <<>>, t>> : t \in Tokens }

ResetPasswordInputs ==
    { <<<<>>, PwGood, PwOther>>, <<EmailA, PwGood, <<>>>>, <<EmailA, PwGood, PwOther>>,
      <<EmailA, PwOther, PwGood>>, <<EmailA, PwShort, PwOther>>,
      <<EmailAUpper, PwGood, PwOther>>, <<EmailB, PwGood, PwOther>> }

UpdateUserLocationInputs ==
    { <<<<>>, NYC>>, <<EmailA, <<>>>>, <<EmailA, NYC>> }

UpdateUserInsensitiveDataInputs ==
    { <<<<>>, BecomeBarber>>, <<EmailA, <<>>>>, <<EmailA, BecomeBarber>>, <<EmailA, MoveToNYC>>,
      <<EmailA, Overreach>> }

QueryInputs == {<<>>, EmailA, NYC}

LookupInputs == {<<>>, EmailA, EmailB}

AddToPaymentHistoryInputs ==
    { <<<<>>, EmailA, <<CutName>>, 20>>, <<EmailB, EmailA, <<CutName>>, 0>>,
      <<EmailB, EmailA, <<CutName>>, 20>> }

Dates == {<<"1", "1", "/", "4">>}
Randoms == {<<"4", "2">>}

BlockInputs == { <<<<>>, EmailB>>, <<EmailA, <<>>>>, <<EmailA, EmailB>> }

SetFavoriteBarberInputs ==
    { <<<<>>, EmailB>>, <<EmailA, <<>>>>, <<EmailA, NotAnEmail>>, <<EmailA, EmailB>> }

CreateServiceInputs ==
    { <<<<>>, EmailA>>, <<FreeCut, EmailA>>, <<Cut, <<>>>>, <<Cut, EmailA>>, <<Cut, EmailB>> }

UpdateServiceInputs ==
    { <<EmailA, 0, Trim>>, <<EmailA, 1, <<>>>>, <<<<>>, 1, Trim>>, <<EmailA, 1, FreeCut>> }
    \cup { <<EmailA, p, Trim>> : p \in PriceIds }

DeleteServiceInputs ==
    { <<<<>>, 1>>, <<EmailA, 0>> } \cup { <<EmailA, p>> : p \in PriceIds }

(* One action per public method *)

Signup ==
    \E a \in SignupInputs : Returns("signup", a, signup(World, a[1], a[2]))

Login ==
    \E a \in LoginInputs : Returns("login", a, login(World, a[1], a[2], a[3]))

Signout ==
    \E t \in {0} \cup Tokens : Returns("signout", <<t>>, signout(World, t))

ResetPassword ==
    \E a \in ResetPasswordInputs :
        Returns("resetPassword", a, resetPassword(World, a[1], a[2], a[3]))

UpdateUserLocation ==
    \E a \in UpdateUserLocationInputs :
        Returns("updateUserLocation", a, updateUserLocation(World, a[1], a[2]))

UpdateUserInsensitiveData ==
    \E a \in UpdateUserInsensitiveDataInputs :
        Returns("updateUserInsensitiveData", a, updateUserInsensitiveData(World, a[1], a[2]))

GetSearchedUsers ==
    \E q \in QueryInputs : Returns("getSearchedUsers", <<q>>, getSearchedUsers(World, q))

GetPaymentHistory ==
    \E e \in LookupInputs : Returns("getPaymentHistory", <<e>>, getPaymentHistory(World, e))

AddToPaymentHistory ==
    \E a \in AddToPaymentHistoryInputs, date \in Dates, random \in Randoms :
        Returns("addToPaymentHistory", a,
                addToPaymentHistory(World, a[1], a[2], a[3], a[4], date, random))

GetBlockedUsers ==
    \E e \in LookupInputs : Returns("getBlockedUsers", <<e>>, getBlockedUsers(World, e))

BlockUser ==
    \E a \in BlockInputs : Returns("blockUser", a, blockUser(World, a[1], a[2]))

UnblockUser ==
    \E a \in BlockInputs : Returns("unblockUser", a, unblockUser(World, a[1], a[2]))

SetFavoriteBarber ==
    \E a \in SetFavoriteBarberInputs :
        Returns("setFavoriteBarber", a, setFavoriteBarber(World, a[1], a[2]))

CreateService ==
    \E a \in CreateServiceInputs :
        Returns("createService", a, createService(World, a[1], a[2]))

UpdateService ==
    \E a \in UpdateServiceInputs :
        Returns("updateService", a, updateService(World, a[1], a[2], a[3]))

DeleteService ==
    \E a \in DeleteServiceInputs :
        Returns("deleteService", a, deleteService(World, a[1], a[2]))

Next ==
    \/ Signup
    \/ Login
    \/ Signout
    \/ ResetPassword
    \/ UpdateUserLocation
    \/ UpdateUserInsensitiveData
    \/ GetSearchedUsers
    \/ GetPaymentHistory
    \/ AddToPaymentHistory
    \/ GetBlockedUsers
    \/ BlockUser
    \/ UnblockUser
    \/ SetFavoriteBarber
    \/ CreateService
    \/ UpdateService
    \/ DeleteService

Spec == Init /\ [][Next]_vars

----------------------------------------------------------------------------
(* SpecAsync: calls in flight together.  A call runs until it awaits a
   collaborator and is resumed with the collaborator's answer; the
   collaborator acts on the world as it is when it answers. *)

MaxTasks == 2           \* calls suspended at one time

SetWorld(w) ==
    /\ users' = w.users
    /\ session' = w.session
    /\ nextSessionId' = w.nextSessionId
    /\ nextStripeAccount' = w.nextStripeAccount
    /\ stripePrices' = w.stripePrices

Without(seq, i) == [j \in 1 .. Len(seq) - 1 |-> IF j < i THEN seq[j] ELSE seq[j + 1]]

\* task i returns
Finish(i, w, res, calls) ==
    /\ SetWorld(w)
    /\ last' = [op |-> tasks[i].op, args |-> tasks[i].args, res |-> res, calls |-> calls]
    /\ tasks' = Without(tasks, i)

\* task i awaits its next collaborator
Suspend(i, w, task) ==
    /\ SetWorld(w)
    /\ tasks' = [tasks EXCEPT ![i] = task]
    /\ UNCHANGED last

\* lines 97-105: updateUserInsensitiveData up to its await of find
StartUpdateUserInsensitiveData ==
    /\ nCalls < MaxCalls
    /\ Len(tasks) < MaxTasks
    /\ nCalls' = nCalls + 1
    /\ \E a \in UpdateUserInsensitiveDataInputs :
         IF Falsy(a[1]) \/ a[2] = <<>>
         THEN /\ last' = [op |-> "updateUserInsensitiveData", args |-> a,
                          res |-> error(MissingParameters), calls |-> <<>>]
              /\ UNCHANGED <<users, session, nextSessionId, nextStripeAccount, stripePrices, tasks>>
         ELSE /\ tasks' = Append(tasks, [op |-> "updateUserInsensitiveData", args |-> a,
                                         pc |-> "find",
                                         userUpdate |-> userUpdateOf(a[1], a[2][1]),
                                         calls |-> <<>>])
              /\ UNCHANGED <<users, session, nextSessionId, nextStripeAccount, stripePrices, last>>

\* lines 105-111: find answers; the call returns or awaits createAccount or update
ResumeUpdateAfterFind ==
    \E i \in DOMAIN tasks :
        /\ tasks[i].op = "updateUserInsensitiveData" /\ tasks[i].pc = "find"
        /\ UNCHANGED nCalls
        /\ \E f \in find(World, tasks[i].args[1], {"email", "stripeAccountId"}) :
             LET calls == Append(tasks[i].calls, Call("find", f.mode))
             IN IF f.mode = "throw" THEN Finish(i, World, error(InternalError), calls)
                ELSE IF ~f.resp.success THEN Finish(i, World, error(f.resp.error), calls)
                ELSE IF f.resp.data = <<>> THEN Finish(i, World, error(InternalError), calls)
                ELSE IF needsStripeAccount(tasks[i].args[2][1], f.resp.data[1])
                THEN Suspend(i, World, [tasks[i] EXCEPT !.pc = "createAccount", !.calls = calls])
                ELSE Suspend(i, World, [tasks[i] EXCEPT !.pc = "update", !.calls = calls])

\* lines 111-116: createAccount answers; the call awaits update
ResumeUpdateAfterCreateAccount ==
    \E i \in DOMAIN tasks :
        /\ tasks[i].op = "updateUserInsensitiveData" /\ tasks[i].pc = "createAccount"
        /\ UNCHANGED nCalls
        /\ \E s \in createAccount(World) :
             LET calls == Append(tasks[i].calls, Call("createAccount", s.mode))
             IN IF s.mode = "throw" THEN Finish(i, s.w, error(InternalError), calls)
                ELSE Suspend(i, s.w,
                             [tasks[i] EXCEPT !.pc = "update", !.calls = calls,
                                  !.userUpdate = withStripeAccount(tasks[i].userUpdate, s.resp)])

\* lines 116-118: update answers; the call returns
ResumeUpdateAfterUpdate ==
    \E i \in DOMAIN tasks :
        /\ tasks[i].op = "updateUserInsensitiveData" /\ tasks[i].pc = "update"
        /\ UNCHANGED nCalls
        /\ \E o \in persistUserUpdate(World, tasks[i].userUpdate, tasks[i].calls) :
             Finish(i, o.w, o.res, o.calls)

\* lines 46-74: a login by token up to its await of find; the session
\* entry is read before the await
StartLoginBySessionId ==
    /\ nCalls < MaxCalls
    /\ Len(tasks) < MaxTasks
    /\ nCalls' = nCalls + 1
    /\ \E t \in Tokens :
         LET a == <<<<>>, <<>>, t>>
             calls == <<Call("session.data", "ok")>>
         IN IF t \notin DOMAIN session
            THEN /\ last' = [op |-> "login", args |-> a,
                             res |-> error(Err("Invalid sessionId", <<>>)), calls |-> calls]
                 /\ UNCHANGED <<users, session, nextSessionId, nextStripeAccount, stripePrices, tasks>>
            ELSE /\ tasks' = Append(tasks, [op |-> "login", args |-> a, pc |-> "find",
                                            email |-> session[t], calls |-> calls])
                 /\ UNCHANGED <<users, session, nextSessionId, nextStripeAccount, stripePrices, last>>

\* lines 74-79: find answers; the login returns
ResumeLoginAfterFind ==
    \E i \in DOMAIN tasks :
        /\ tasks[i].op = "login" /\ tasks[i].pc = "find"
        /\ UNCHANGED nCalls
        /\ \E f \in find(World, tasks[i].email, {}) :
             LET calls == Append(tasks[i].calls, Call("find", f.mode))
             IN IF f.mode = "throw" THEN Finish(i, World, error(InternalError), calls)
                ELSE IF ~f.resp.success THEN Finish(i, World, error(f.resp.error), calls)
                ELSE IF f.resp.data = <<>>
                THEN Finish(i, World, error(Err("Could not find user ", tasks[i].email)), calls)
                ELSE LET userData == filterSensitiveUserData(f.resp.data[1])
                     IN Finish(i, World, success([userData |-> JSONstringify(userData),
                                                  method |-> "bySessionId"]), calls)

NextAsync ==
    \/ Signup
    \/ Login
    \/ Signout
    \/ StartUpdateUserInsensitiveData
    \/ ResumeUpdateAfterFind
    \/ ResumeUpdateAfterCreateAccount
    \/ ResumeUpdateAfterUpdate
    \/ StartLoginBySessionId
    \/ ResumeLoginAfterFind

SpecAsync == Init /\ [][NextAsync]_vars

----------------------------------------------------------------------------
(* Properties *)

\* no collaborator call of the list failed
NoFault(calls) == \A i \in DOMAIN calls : calls[i].mode = "ok"

Made(calls, name) == \E i \in DOMAIN calls : calls[i].call = name
MadeOk(calls, name) == \E i \in DOMAIN calls : calls[i].call = name /\ calls[i].mode = "ok"

InvalidSessionId == error(Err("Invalid sessionId", <<>>))
PasswordIsIncorrect == error(Err("Password is incorrect", <<>>))

Linked(us, e) == us[e] # <<>> /\ Has(us[e][1], "stripeAccountId")

\* C1: when signup(e, p) has succeeded, a login(e, p) made right after it
\* with the same email string and password, its collaborators answering,
\* succeeds on the credential path with a new session token.
C1_SignupThenLogin ==
    [][ ( /\ last.op = "signup" /\ last.res.success
          /\ last'.op = "login"
          /\ last'.args = <<last.args[1], last.args[2], 0>>
          /\ NoFault(last'.calls) )
        => ( /\ last'.res.success
             /\ last'.res.data.method = "byUserData"
             /\ last'.res.data.sessionId \notin DOMAIN session
             /\ last'.res.data.sessionId \in DOMAIN session' ) ]_vars

\* C2: when signup(e, p) has succeeded the account is stored under
\* lowercase(e) and under no other spelling of e, and login(lowercase(e), p),
\* its collaborators answering, succeeds on the credential path.
C2_EmailNormalization ==
    (last.op = "signup" /\ last.res.success) =>
        LET e == last.args[1]
            p == last.args[2]
            k == toLowerCase(e)
        IN /\ Stored(World, k)
           /\ DocOf(World, k).email = k
           /\ e # k => ~Stored(World, e)
           /\ \A o \in login(World, k, p, 0) :
                NoFault(o.calls) => o.res.success /\ o.res.data.method = "byUserData"

\* a signup with an upper-case letter has succeeded and the lower-case login works
C2_Witness ==
    /\ last.op = "signup" /\ last.res.success
    /\ last.args[1] = EmailAUpper
    /\ Stored(World, EmailA)
    /\ \E o \in login(World, EmailA, last.args[2], 0) : o.res.success

\* C3 as claimed: login dispatches to a path only when exactly one of
\* {email+password, token} is supplied (a token with no email and no
\* password, or email+password with no token); any other combination is
\* answered with the validation error and no credential or token check.
C3_MutualExclusivity ==
    last.op = "login" =>
        LET email == last.args[1]
            password == last.args[2]
            sessionId == last.args[3]
            credentials == ~Falsy(email) /\ ~Falsy(password)
            tokenOnly == sessionId # 0 /\ Falsy(email) /\ Falsy(password)
            exactlyOne == (credentials /\ sessionId = 0) \/ tokenOnly
        IN ~exactlyOne => (last.res = error(MissingParameters) /\ last.calls = <<>>)

\* C3 as amended: login answers the validation error, with no check made,
\* exactly when neither a complete email+password pair nor a token is
\* supplied; with email and password both supplied it takes the credential
\* path, a token supplied with them being ignored; otherwise, with a token
\* supplied, it takes the token path, a lone email or password being ignored.
C3_LoginDispatch ==
    last.op = "login" =>
        LET email == last.args[1]
            password == last.args[2]
            sessionId == last.args[3]
            credentials == ~Falsy(email) /\ ~Falsy(password)
        IN IF ~credentials /\ sessionId = 0
           THEN last.res = error(MissingParameters) /\ last.calls = <<>>
           ELSE IF credentials
           THEN /\ last.calls # <<>> /\ last.calls[1].call = "find"
                /\ ~Made(last.calls, "session.data")
                /\ last.res.success => last.res.data.method = "byUserData"
           ELSE /\ last.calls # <<>> /\ last.calls[1].call = "session.data"
                /\ ~Made(last.calls, "compare")
                /\ last.res.success => last.res.data.method = "bySessionId"

\* a login given email, password and a token has gone down the credential path
C3_Witness ==
    /\ last.op = "login"
    /\ ~Falsy(last.args[1]) /\ ~Falsy(last.args[2]) /\ last.args[3] # 0
    /\ last.res.success
    /\ last.res.data.method = "byUserData"

\* C4: no account value in a returned result carries the password field.
C4_NoPasswordReturned ==
    /\ (last.op = "login" /\ last.res.success) =>
           "password" \notin JSONkeys(last.res.data.userData)
    /\ (last.op = "updateUserInsensitiveData" /\ last.res.success) =>
           "password" \notin DOMAIN last.res.data
    /\ (last.op = "getSearchedUsers" /\ last.res.success) =>
           \A e \in DOMAIN last.res.data : "password" \notin DOMAIN last.res.data[e]

\* C5: signout(t) of a non-empty token succeeds whether or not t is in the
\* session store and leaves t out of it, so that a second signout(t) succeeds
\* too; and a login by a token that is not in the store, whatever else it is
\* given short of a full email+password pair, fails with the invalid-session
\* error and leaves the store as it is.
C5_SignoutRevokes ==
    /\ (last.op = "signout" /\ last.args[1] # 0) =>
           /\ last.res.success
           /\ last.args[1] \notin DOMAIN session
    /\ \A t \in Tokens :
           /\ \A o \in signout(World, t) :
                  /\ o.res.success
                  /\ t \notin DOMAIN o.w.session
                  /\ \A o2 \in signout(o.w, t) : o2.res.success /\ o2.w = o.w
           /\ t \notin DOMAIN session =>
                  \A o \in login(World, <<>>, <<>>, t) :
                      o.res = InvalidSessionId /\ o.w = World
    /\ (last.op = "login" /\ last.res.success /\ last.res.data.method = "bySessionId") =>
           last.args[3] \in DOMAIN session

\* a token was issued, signed out, and then refused
C5_Witness ==
    /\ last.op = "login"
    /\ last.args[3] # 0 /\ last.args[3] < nextSessionId
    /\ last.args[3] \notin DOMAIN session
    /\ last.res = InvalidSessionId

\* C6: the session store changes only when a credential login succeeds,
\* which adds exactly one new token mapped to the email logged in with, and
\* when signout runs, which removes the token given; a credential login that
\* succeeds always adds its token, and nothing else changes the store.
C6_SessionFrame ==
    [][ LET credentialLogin ==
                /\ last'.op = "login" /\ last'.res.success
                /\ last'.res.data.method = "byUserData"
            added ==
                /\ last'.res.data.sessionId \notin DOMAIN session
                /\ session' = (last'.res.data.sessionId :> last'.args[1]) @@ session
            removed ==
                session' = [t \in DOMAIN session \ {last'.args[1]} |-> session[t]]
        IN /\ credentialLogin => added
           /\ (last'.op = "signout" /\ last'.res.success) => removed
           /\ session' # session => (credentialLogin \/ last'.op = "signout") ]_vars

\* a credential login has put its token in the store
C6_Witness ==
    /\ last.op = "login" /\ last.res.success
    /\ last.res.data.method = "byUserData"
    /\ last.res.data.sessionId \in DOMAIN session
    /\ session[last.res.data.sessionId] = EmailA

\* C7: resetPassword(email, old, new) for a stored account whose credential
\* old does not verify against answers an error and changes nothing; it
\* changes the store only when old verified and the update succeeded, and
\* then only that account's credential.  After a refused reset a login with
\* the email succeeds with exactly the passwords that verified before it:
\* the correct one still does, and new (not being the stored one) does not.
C7_ResetPassword ==
    /\ \A a \in ResetPasswordInputs :
         \A o \in resetPassword(World, a[1], a[2], a[3]) :
           LET known == Stored(World, a[1])
               verifies == known /\ compare(a[2], DocOf(World, a[1]).password)
           IN /\ (known /\ ~verifies) => (~o.res.success /\ o.w = World)
              /\ o.w # World =>
                   /\ verifies
                   /\ o.res.success
                   /\ MadeOk(o.calls, "update")
                   /\ o.w = [World EXCEPT !.users[a[1]] =
                               <<[DocOf(World, a[1]) EXCEPT !.password = hash(a[3])]>>]
              /\ o.res.success => o.w.users[a[1]][1].password = hash(a[3])
    /\ (last.op = "resetPassword" /\ last.res = PasswordIsIncorrect) =>
         LET email == last.args[1]
             stored == DocOf(World, email).password
         IN /\ ~compare(last.args[2], stored)
            /\ \A p \in PasswordInputs \ {<<>>} :
                 \A o \in login(World, email, p, 0) :
                   NoFault(o.calls) => (o.res.success <=> compare(p, stored))

\* a reset with a wrong old password was refused; the old login still works
C7_Witness ==
    /\ last.op = "resetPassword" /\ last.res = PasswordIsIncorrect
    /\ last.args[3] # <<>>
    /\ ~compare(last.args[3], DocOf(World, last.args[1]).password)
    /\ \E p \in PasswordInputs : \E o \in login(World, last.args[1], p, 0) : o.res.success
    /\ \A o \in login(World, last.args[1], last.args[3], 0) : ~o.res.success

StripeIdOf(us, e) == IF Linked(us, e) THEN us[e][1].stripeAccountId ELSE 0

\* C8: an account's provider account id is set at most once: once an
\* account has one, no step of any call, in any interleaving, replaces it
\* with another or removes it.
C8_ProviderAccountSetOnce ==
    [][ \A e \in EmailKeys :
          Linked(users, e) => StripeIdOf(users', e) = StripeIdOf(users, e) ]_vars

ValidServiceData(serviceData) ==
    /\ serviceData # <<>>
    /\ ~Falsy(serviceData[1].name) /\ serviceData[1].cost # 0 /\ serviceData[1].time # 0

\* C9 as claimed: createService called with valid service data for a stored
\* account with no provider account id, its collaborators answering,
\* requests a sub-account, stores its id on the account and answers the
\* onboarding URL.
C9_CreateServiceLinks ==
    [][ ( /\ last'.op = "createService"
          /\ ValidServiceData(last'.args[1])
          /\ Stored(World, last'.args[2])
          /\ ~Linked(users, last'.args[2])
          /\ NoFault(last'.calls) )
        => ( /\ MadeOk(last'.calls, "createAccount")
             /\ Linked(users', last'.args[2])
             /\ ~last'.res.success
             /\ last'.res.error.msg = "url" ) ]_vars

\* C9 as amended: Unlinked -> Linked happens on updateUserInsensitiveData,
\* not on createService.  Called with a truthy isBarber for a stored account
\* with no provider account id, its collaborators answering,
\* updateUserInsensitiveData requests a sub-account, stores its id on the
\* account and answers success.  createService never requests a sub-account
\* and never changes an account's provider account id: an Unlinked account
\* is still Unlinked after it, whatever it answers.
C9_LinkOnBarberUpdate ==
    [][ /\ last'.op = "createService" =>
             /\ ~Made(last'.calls, "createAccount")
             /\ nextStripeAccount' = nextStripeAccount
             /\ \A e \in EmailKeys : StripeIdOf(users', e) = StripeIdOf(users, e)
        /\ ( /\ last'.op = "updateUserInsensitiveData"
             /\ last'.args[2] # <<>>
             /\ TruthyIn(last'.args[2][1], "isBarber")
             /\ Stored(World, last'.args[1])
             /\ ~Linked(users, last'.args[1])
             /\ NoFault(last'.calls) )
           => ( /\ MadeOk(last'.calls, "createAccount")
                /\ last'.res.success
                /\ nextStripeAccount' = nextStripeAccount + 1
                /\ StripeIdOf(users', last'.args[1]) = nextStripeAccount
                /\ last'.res.data.stripeAccountId = nextStripeAccount ) ]_vars

\* a barber update has linked an account
C9_Witness ==
    /\ last.op = "updateUserInsensitiveData" /\ last.res.success
    /\ Has(last.res.data, "stripeAccountId")
    /\ StripeIdOf(users, last.args[1]) = last.res.data.stripeAccountId

ServiceLifecycleOps == {"createService", "updateService", "deleteService"}

\* C10 as claimed: only createService, updateService and deleteService
\* create a provider sub-account or give an account a provider account id.
C10_OnlyServiceOpsLink ==
    [][ ( \/ nextStripeAccount' # nextStripeAccount
          \/ \E e \in EmailKeys : StripeIdOf(users', e) # StripeIdOf(users, e) )
        => last'.op \in ServiceLifecycleOps ]_vars

\* C10 as amended: only updateUserInsensitiveData, called with a truthy
\* isBarber, creates a provider sub-account or writes an account's provider
\* account id; no other operation does, the service-lifecycle operations
\* and setFavoriteBarber included.
C10_OnlyBarberUpdateLinks ==
    [][ ( \/ nextStripeAccount' # nextStripeAccount
          \/ \E e \in EmailKeys : StripeIdOf(users', e) # StripeIdOf(users, e) )
        => ( /\ last'.op = "updateUserInsensitiveData"
             /\ TruthyIn(last'.args[2][1], "isBarber")
             /\ MadeOk(last'.calls, "createAccount") ) ]_vars

\* a sub-account was created by a barber update whose store update then failed
C10_Witness ==
    /\ last.op = "updateUserInsensitiveData"
    /\ MadeOk(last.calls, "createAccount")
    /\ ~last.res.success
    /\ nextStripeAccount > 1
    /\ ~Linked(users, last.args[1])

----------------------------------------------------------------------------
(* The service lifecycle *)

Verified(us, e) == us[e] # <<>> /\ isStripeVerified(us[e][1])

ServicesOf(us, e) == IF us[e] = <<>> THEN <<>> ELSE us[e][1].services

\* getAccount answered, and its answer for charges_enabled was b
ChargeCapableAnswer(calls, b) ==
    \E i \in DOMAIN calls :
        /\ calls[i].call = "getAccount" /\ calls[i].mode = "ok"
        /\ calls[i].data.charges_enabled = b

\* the account a service-lifecycle call is made for
ServiceEmailOf(call) == IF call.op = "createService" THEN call.args[2] ELSE call.args[1]

\* C11: an account whose verified flag is true keeps it true through every
\* call, whatever its collaborators answer; and the flag becomes true only
\* in a createService for that account (called directly or by updateService)
\* in which the provider answered that the sub-account is charge-capable
\* and the store update of the flag succeeded.
C11_VerifiedIsMonotone ==
    [][ \A e \in EmailKeys :
          /\ Verified(users, e) => Verified(users', e)
          /\ (~Verified(users, e) /\ Verified(users', e)) =>
               /\ last'.op \in {"createService", "updateService"}
               /\ ServiceEmailOf(last') = e
               /\ ChargeCapableAnswer(last'.calls, TRUE)
               /\ ~Made(last'.calls, "getAccountLink")
               /\ MadeOk(last'.calls, "update") ]_vars

\* a verified account has been through an update that asked for more than
\* the allowed properties, and is still verified
C11_Witness ==
    /\ Verified(users, EmailA)
    /\ last.op = "updateUserInsensitiveData"
    /\ last.args = <<EmailA, Overreach>>
    /\ last.res.success

\* the error result that carries the onboarding URL of a sub-account
VerificationRequired(accountId) == error(Err("url", <<"onboarding", accountId>>))

\* C12: a createService in which the provider answers that the sub-account
\* is not charge-capable was made for an unverified account, answers an
\* error, makes no store update, price creation or catalog insert, and
\* leaves the store, the provider's prices and the sessions as they were:
\* the catalog is unchanged and the flag still false.  When the provider
\* then answers the onboarding link, the result is the one carrying its URL.
C12_VerificationRequired ==
    [][ (last'.op = "createService" /\ ChargeCapableAnswer(last'.calls, FALSE)) =>
          LET email == last'.args[2]
          IN /\ Stored(World, email) /\ ~Verified(users, email)
             /\ ~last'.res.success
             /\ Made(last'.calls, "getAccountLink")
             /\ ~Made(last'.calls, "update")
             /\ ~Made(last'.calls, "createPrice")
             /\ ~Made(last'.calls, "updateArrayValue")
             /\ users' = users /\ stripePrices' = stripePrices
             /\ session' = session /\ nextStripeAccount' = nextStripeAccount
             /\ ~Verified(users', email)
             /\ MadeOk(last'.calls, "getAccountLink") =>
                    last'.res = VerificationRequired(StripeIdOf(users, email)) ]_vars

\* a linked, unverified account was answered the onboarding URL
C12_Witness ==
    /\ last.op = "createService"
    /\ ChargeCapableAnswer(last.calls, FALSE)
    /\ Linked(users, last.args[2])
    /\ last.res = VerificationRequired(StripeIdOf(users, last.args[2]))
    /\ ServicesOf(users, last.args[2]) = <<>>
    /\ stripePrices = <<>>

\* C13: a call whose result is a success made no store or provider call
\* that failed, as a failed result or as an exception: every collaborator
\* failure is answered with an error result.
C13_FailuresSurfaced ==
    last.res.success => NoFault(last.calls)

CallsNamed(calls, name) == {i \in DOMAIN calls : calls[i].call = name}

\* C14: a createService whose price creation succeeded and whose catalog
\* insert then failed leaves the new price at the provider and the catalog
\* as it was, and makes no call after the failed insert: one price
\* creation, one insert, nothing to undo or retry either.  A verified flag
\* it persisted stays true when the price creation or the insert fails.
C14_NoCompensation ==
    [][ last'.op = "createService" =>
          LET email == last'.args[2]
              calls == last'.calls
              d == last'.args[1][1]
              priced == MadeOk(calls, "createPrice")
              inserted == MadeOk(calls, "updateArrayValue")
          IN /\ (priced /\ Made(calls, "updateArrayValue") /\ ~inserted) =>
                  /\ stripePrices' = Append(stripePrices, [name |-> d.name,
                                                           amount |-> priceAmount(d.cost)])
                  /\ ServicesOf(users', email) = ServicesOf(users, email)
                  /\ calls[Len(calls)].call = "updateArrayValue"
                  /\ Cardinality(CallsNamed(calls, "createPrice")) = 1
                  /\ Cardinality(CallsNamed(calls, "updateArrayValue")) = 1
             /\ (MadeOk(calls, "update") /\ ~(priced /\ inserted)) =>
                  /\ Verified(users', email)
                  /\ Cardinality(CallsNamed(calls, "update")) = 1 ]_vars

\* a price was created for a service that is in no catalog
C14_Witness ==
    /\ last.op = "createService"
    /\ MadeOk(last.calls, "createPrice")
    /\ Made(last.calls, "updateArrayValue") /\ ~MadeOk(last.calls, "updateArrayValue")
    /\ Len(stripePrices) = 1
    /\ ServicesOf(users, last.args[2]) = <<>>
    /\ Verified(users, last.args[2])

HasPrice(services, priceId) == \E i \in DOMAIN services : services[i].stripePriceId = priceId

WithoutPrice(services, priceId) == SelectSeq(services, LAMBDA x : x.stripePriceId # priceId)

StoreFault(res) == ~res.success /\ res.error \in {StoreFailure, InternalError}

\* C15: deleteService(email, priceId) for a stored account, the store not
\* failing, makes one array mutation and no provider call; when the catalog
\* has a service with that price id it answers success and the catalog is
\* left without that service, its other entries as they were; when it has
\* none it answers an error and the catalog is as it was.
C15_DeleteService ==
    [][ ( /\ last'.op = "deleteService"
          /\ last'.args[2] # 0
          /\ Stored(World, last'.args[1])
          /\ ~StoreFault(last'.res) )
        => LET email == last'.args[1]
               priceId == last'.args[2]
               services == ServicesOf(users, email)
           IN /\ Len(last'.calls) = 1 /\ last'.calls[1].call = "updateArrayValue"
              /\ stripePrices' = stripePrices
              /\ IF HasPrice(services, priceId)
                 THEN /\ last'.res.success
                      /\ ServicesOf(users', email) = WithoutPrice(services, priceId)
                 ELSE /\ ~last'.res.success
                      /\ ServicesOf(users', email) = services ]_vars

\* the world once the service with the price id is out of the catalog
AfterDelete(w, email, priceId) ==
    [w EXCEPT !.users[email] =
        <<[DocOf(w, email) EXCEPT !.services = WithoutPrice(DocOf(w, email).services, priceId)]>>]

\* C16: updateService(email, priceId, newData) first makes the delete's
\* array mutation.  When the delete fails it answers an error after that
\* one call, and neither the store nor the provider is changed.  Only when
\* the delete succeeded does createService run, on the catalog without the
\* old service, and its result is the result of updateService; when it
\* answers an error the catalog is left without the old service and
\* without a new one.
C16_DeleteThenCreate ==
    [][ (last'.op = "updateService" /\ last'.calls # <<>>) =>
          LET email == last'.args[1]
              priceId == last'.args[2]
              newData == last'.args[3]
              calls == last'.calls
              services == ServicesOf(users, email)
          IN /\ calls[1].call = "updateArrayValue"
             /\ calls[1].mode # "ok" =>
                  /\ Len(calls) = 1
                  /\ ~last'.res.success
                  /\ users' = users /\ stripePrices' = stripePrices
             /\ calls[1].mode = "ok" =>
                  /\ HasPrice(services, priceId)
                  /\ ~HasPrice(ServicesOf(users', email), priceId)
                  /\ \E c \in createService(AfterDelete(World, email, priceId), newData, email) :
                        /\ c.res = last'.res
                        /\ c.calls = SubSeq(calls, 2, Len(calls))
                        /\ c.w.users = users' /\ c.w.stripePrices = stripePrices'
                  /\ ~last'.res.success =>
                        ServicesOf(users', email) = WithoutPrice(services, priceId) ]_vars

\* the delete succeeded, the create answered an error: the service is lost
C16_Witness ==
    /\ last.op = "updateService"
    /\ last.calls # <<>> /\ last.calls[1].mode = "ok"
    /\ ~last.res.success
    /\ stripePrices # <<>>
    /\ ServicesOf(users, last.args[1]) = <<>>

----------------------------------------------------------------------------
(* The blocklist *)

NoDuplicates(seq) == \A i, j \in DOMAIN seq : i # j => seq[i] # seq[j]

BlockedUsersOf(us, e) == IF us[e] = <<>> THEN <<>> ELSE us[e][1].blockedUsers

\* C17: the blocklist of every account holds no email twice, and the list
\* getBlockedUsers answers holds no email twice: after blockUser(a, b), made
\* once or more, b is on a's blocklist exactly once.
C17_BlocklistIsSet ==
    /\ \A e \in EmailKeys : NoDuplicates(BlockedUsersOf(users, e))
    /\ (last.op = "getBlockedUsers" /\ last.res.success) => NoDuplicates(last.res.data)
    /\ (last.op = "blockUser" /\ last.res.success) =>
           Cardinality({i \in DOMAIN BlockedUsersOf(users, last.args[1]) :
                          BlockedUsersOf(users, last.args[1])[i] = last.args[2]}) = 1

----------------------------------------------------------------------------
(* Price ids *)

\* the places of the service entries: <<account, index in its catalog>>
ServiceEntries ==
    UNION { {<<e, i>> : i \in DOMAIN ServicesOf(users, e)} : e \in EmailKeys }

ServiceAt(x) == ServicesOf(users, x[1])[x[2]]

\* C18: the price id of every service entry of every catalog is the id of
\* a price the provider created, for that service's name and cost, and no
\* two service entries, in one catalog or in two, have the same price id.
C18_PriceIdsUnique ==
    /\ \A x \in ServiceEntries :
          LET service == ServiceAt(x)
          IN /\ service.stripePriceId \in DOMAIN stripePrices
             /\ stripePrices[service.stripePriceId] =
                    [name |-> service.name, amount |-> priceAmount(service.cost)]
    /\ \A x, y \in ServiceEntries :
          x # y => ServiceAt(x).stripePriceId # ServiceAt(y).stripePriceId

\* two accounts each have a service in their catalog
C18_Witness ==
    /\ ServicesOf(users, EmailA) # <<>>
    /\ ServicesOf(users, EmailB) # <<>>
    /\ last.op = "createService" /\ last.res.success

----------------------------------------------------------------------------
(* Signout and the logins in flight *)

\* C19: a login by token that returns a success returns it while the token
\* is in the session store: once signout(t) has returned, no login by t
\* answers a success, a login that read the entry before the signout and
\* was awaiting the account lookup included.
C19_SignoutBeatsLoginInFlight ==
    (last.op = "login" /\ last.res.success /\ last.res.data.method = "bySessionId") =>
        last.args[3] \in DOMAIN session

----------------------------------------------------------------------------
(* The linkage states *)

\* C20: an account whose verified flag is true has a provider account id;
\* a createService for an account with no provider account id sets no
\* verified flag, creates no price and appends nothing to the catalog,
\* whatever the provider answers to the status query for the missing id.
C20_VerifiedImpliesLinked ==
    /\ \A e \in EmailKeys : Verified(users, e) => Linked(users, e)
    /\ ( /\ last.op = "createService"
         /\ Stored(World, last.args[2])
         /\ ~Linked(users, last.args[2]) ) =>
           /\ ~MadeOk(last.calls, "update")
           /\ ~MadeOk(last.calls, "createPrice")
           /\ ~MadeOk(last.calls, "updateArrayValue")

====
